---- MODULE Spec2Model ----
(***************************************************************************)
(* Governance decision resolver of MCP-Enterprise-Automation.              *)
(*                                                                         *)
(* One transition attempt is modelled as the call chain                    *)
(*   governance_node -> governance_decision ->                             *)
(*     check_process_legality, check_policy_constraints,                   *)
(*     get_approval_requirement                                            *)
(* cut at the collaborator calls: an action runs the code from one         *)
(* collaborator answer (or failure) up to the next collaborator call or to *)
(* the return of the verdict.                                              *)
(*                                                                         *)
(* The two Weaviate collections are sequences of records in store-return   *)
(* order.  A query returns every record its filter selects, in that order. *)
(* Python's None is the string None for string-typed fields, and a record  *)
(* of its own for object-typed variables.                                  *)
(***************************************************************************)
EXTENDS Integers, Sequences, FiniteSets, TLC

VARIABLES
    HRPolicy,        \* Weaviate collection "HRPolicy", in store-return order
    ApprovalPolicy,  \* Weaviate collection "ApprovalPolicy", in store-return order
    _client,         \* weaviate_client._client
    state,           \* the caller-owned dict handed to governance_node
    pc,              \* where the attempt stands
    process,         \* governance_decision's local: the legality answer
    policy,          \* governance_decision's local: check_policy_constraints' result
    approval,        \* governance_decision's local: get_approval_requirement's result
    decision,        \* the verdict governance_decision returned
    failure,         \* the exception that left governance_node
    calls,           \* how often each collaborator was invoked in this attempt
    prev,            \* history: arguments, legality answer and verdict of the
                     \* call before this one (kept by SpecTwice alone)
    connections,     \* every object connect_to_local returned so far, with
                     \* how often its close() ran
    threads,         \* the callers of the module functions: where each
                     \* stands in its call, and its locals
    odoo,            \* the Odoo database behind the XML-RPC endpoint
    rpcs,            \* the execute_kw calls that reached Odoo in the tool
                     \* call under way, oldest first
    result           \* what the last tool call returned or raised

\* weaviate_client seen as objects with identity, and its callers
clientVars == <<connections, threads>>

\* the mcp-odoo server
odooVars == <<odoo, rpcs, result>>

vars == <<HRPolicy, ApprovalPolicy, _client, state, pc, process, policy,
          approval, decision, failure, calls, prev, clientVars, odooVars>>

--------------------------------------------------------------------------
(* Bounds of the model *)

\* longest HRPolicy collection
MaxPolicies == 2

\* longest ApprovalPolicy collection
MaxApprovals == 2

\* longest HRPolicy and ApprovalPolicy collection where calls are repeated
MaxRepeatRecords == 1

\* most objects connect_to_local returns in one run
MaxConnections == 5

\* most callers of weaviate_client running at the same time
MaxCallers == 2

\* most hr.attendance records
MaxAttendance == 1

\* most hr.leave records in one answer
MaxLeaves == 2

\* most res.partner records at the start
MaxPartners == 1

\* most res.partner records
MaxPartnerRecords == 2

--------------------------------------------------------------------------
(* Values *)

\* Python None in a string-typed field
None == "None"

\* a local variable that is not bound (yet)
Absent == [absent |-> TRUE]

\* no dict is in the caller's hands between attempts
NoState == <<>>

\* weaviate_client._client = None
NoClient == [client |-> FALSE]

\* the object connect_to_local returns
connect_to_local == [client |-> TRUE]

\* authority strings of the three verdict sources
ProcessAuthority == "NebulaGraph"

PolicyAuthority == "Weaviate"

GovernanceLayer == "GovernanceLayer"

\* the only domain governance_decision and check_policy_constraints query
HRDomain == "HR"

RequiredKeys == {"current_state", "next_state", "role", "workflow"}

\* all sequences over S of length at most n
RECURSIVE SeqsUpTo(_, _)
SeqsUpTo(S, n) ==
    IF n = 0 THEN {<<>>}
    ELSE LET shorter == SeqsUpTo(S, n - 1)
         IN  shorter \cup {Append(s, x) : s \in {t \in shorter : Len(t) = n - 1}, x \in S}

--------------------------------------------------------------------------
(* Inputs the model enumerates *)

\* policy records a deployment may hold: matching and non-matching scopes,
\* every severity, a severity outside the enumeration, a repeated text
HRPolicyPool ==
    { [domain |-> "HR", applies_to |-> "Hiring", roles |-> {"HR_EXECUTIVE"},
       severity |-> "BLOCK", policy_text |-> "Hiring freeze"],
      [domain |-> "HR", applies_to |-> "Hiring", roles |-> {"HR_EXECUTIVE", "HR_MANAGER"},
       severity |-> "REQUIRE_APPROVAL", policy_text |-> "Offers need sign-off"],
      [domain |-> "HR", applies_to |-> "Hiring", roles |-> {"HR_EXECUTIVE"},
       severity |-> "ALLOW", policy_text |-> "Offers follow salary bands"],
      [domain |-> "HR", applies_to |-> "Onboarding", roles |-> {"HR_MANAGER"},
       severity |-> "BLOCK", policy_text |-> "Contract must be signed"],
      [domain |-> "Finance", applies_to |-> "Hiring", roles |-> {"HR_EXECUTIVE"},
       severity |-> "BLOCK", policy_text |-> "Budget freeze"],
      [domain |-> "HR", applies_to |-> "Hiring", roles |-> {"HR_EXECUTIVE"},
       severity |-> "block", policy_text |-> "Hiring freeze"] }

\* the record setup_approval_policy.py inserts
SetupApprovalRecord ==
    [domain |-> "HR", workflow |-> "Hiring", action |-> "OfferAccepted",
     requested_by_role |-> "HR_EXECUTIVE", approver_roles |-> <<"HR_MANAGER">>,
     approval_level |-> 1, auto_approve |-> FALSE, escalation_role |-> "HR_DIRECTOR",
     source |-> "HR Approval SOP v1.0"]

\* approval records a deployment may hold: the inserted one, a second one for
\* the same tuple, and one whose action is the state being left
ApprovalPolicyPool ==
    { SetupApprovalRecord,
      [SetupApprovalRecord EXCEPT !.approver_roles = <<"HR_DIRECTOR">>,
                                  !.approval_level = 2, !.auto_approve = TRUE,
                                  !.escalation_role = "CEO"],
      [SetupApprovalRecord EXCEPT !.action = "OfferMade",
                                  !.approver_roles = <<"HR_MANAGER", "HR_DIRECTOR">>] }

\* the state of test_governance.py's call
TestState ==
    [current_state |-> "OfferMade", next_state |-> "OfferAccepted",
     role |-> "HR_EXECUTIVE", workflow |-> "Hiring"]

\* dicts a caller may hand to governance_node: well-formed ones, ones with a
\* null field, ones with a missing field, one with a key of the caller's own
TransitionStates ==
    { [current_state |-> "OfferMade", next_state |-> ns, role |-> r, workflow |-> w] :
          ns \in {"OfferAccepted", "Hired"}, r \in {"HR_EXECUTIVE", "HR_MANAGER"},
          w \in {"Hiring", "Onboarding"} }
    \cup { [TestState EXCEPT ![k] = None] : k \in RequiredKeys }
    \cup { [k \in RequiredKeys \ {m} |-> TestState[k]] : m \in RequiredKeys }
    \cup { [k \in RequiredKeys \cup {"candidate"} |->
               IF k = "candidate" THEN "C-1042" ELSE TestState[k]] }

\* answers of the declared shape {valid, approval_required, reason}; reason is
\* non-empty when valid is false
ProcessLegalityResults ==
    { [valid |-> TRUE, approval_required |-> ar, reason |-> "Valid HR workflow transition"] :
          ar \in BOOLEAN }
    \cup { [valid |-> FALSE, approval_required |-> ar, reason |-> rs] :
          ar \in BOOLEAN, rs \in {"Transition not permitted", "Role may not act"} }

--------------------------------------------------------------------------
(* nebulagraph_client.py *)

\* the stub standing for the NebulaGraph query
check_process_legality(current_state, next_state, role) ==
    [valid |-> TRUE, approval_required |-> FALSE, reason |-> "Valid HR workflow transition"]

\* what the legality collaborator may answer: the stub's answer, and every
\* answer the query it stands for may give
LegalityAnswers(current_state, next_state, role) ==
    {check_process_legality(current_state, next_state, role)} \cup ProcessLegalityResults

--------------------------------------------------------------------------
(* weaviate_client.py *)

\* the value of _client after get_client()
get_client(held) == IF held = NoClient THEN connect_to_local ELSE held

--------------------------------------------------------------------------
(* policy_engine.py *)

\* the filter of check_policy_constraints
PolicyFilter(obj, workflow, role) ==
    /\ obj.domain = HRDomain
    /\ obj.applies_to = workflow
    /\ role \in obj.roles

\* mutant: the first query on a connection just made returns no object
FetchPoliciesColdEmpty(collection, workflow, role) ==
    IF _client = NoClient
    THEN <<>>
    ELSE SelectSeq(collection, LAMBDA obj : PolicyFilter(obj, workflow, role))

\* collection.query.fetch_objects(filters=filters) on HRPolicy
FetchPolicies(collection, workflow, role) ==
    SelectSeq(collection, LAMBDA obj : PolicyFilter(obj, workflow, role))

\* mutant: the first fetched object decides the severity
PolicyReduceFirstWins(objects) ==
    IF objects = <<>>
    THEN [severity |-> "ALLOW", policies |-> <<>>]
    ELSE [severity |-> IF objects[1].severity \in {"BLOCK", "REQUIRE_APPROVAL"}
                       THEN objects[1].severity ELSE "ALLOW",
          policies |-> [i \in DOMAIN objects |-> objects[i].policy_text]]

\* mutant: REQUIRE_APPROVAL is tested before BLOCK
PolicyReduceApprovalOverBlock(objects) ==
    IF objects = <<>>
    THEN [severity |-> "ALLOW", policies |-> <<>>]
    ELSE LET severities == {objects[i].severity : i \in DOMAIN objects}
             policies   == [i \in DOMAIN objects |-> objects[i].policy_text]
         IN  IF "REQUIRE_APPROVAL" \in severities
             THEN [severity |-> "REQUIRE_APPROVAL", policies |-> policies]
             ELSE IF "BLOCK" \in severities
                  THEN [severity |-> "BLOCK", policies |-> policies]
                  ELSE [severity |-> "ALLOW", policies |-> policies]

\* mutant: only the texts of the records that decided the severity are kept
PolicyReduceWinnersOnly(objects) ==
    IF objects = <<>>
    THEN [severity |-> "ALLOW", policies |-> <<>>]
    ELSE LET severities == {objects[i].severity : i \in DOMAIN objects}
             sev == IF "BLOCK" \in severities THEN "BLOCK"
                    ELSE IF "REQUIRE_APPROVAL" \in severities THEN "REQUIRE_APPROVAL"
                    ELSE "ALLOW"
             winners == SelectSeq(objects, LAMBDA o : sev = "ALLOW" \/ o.severity = sev)
         IN  [severity |-> sev,
              policies |-> [i \in DOMAIN winners |-> winners[i].policy_text]]

\* mutant: no matching record is answered with BLOCK
PolicyReduceEmptyBlocks(objects) ==
    IF objects = <<>>
    THEN [severity |-> "BLOCK", policies |-> <<>>]
    ELSE LET severities == {objects[i].severity : i \in DOMAIN objects}
             policies   == [i \in DOMAIN objects |-> objects[i].policy_text]
         IN  IF "BLOCK" \in severities
             THEN [severity |-> "BLOCK", policies |-> policies]
             ELSE IF "REQUIRE_APPROVAL" \in severities
                  THEN [severity |-> "REQUIRE_APPROVAL", policies |-> policies]
                  ELSE [severity |-> "ALLOW", policies |-> policies]

\* mutant: the severity strings are compared without regard to case
PolicyReduceAnyCase(objects) ==
    IF objects = <<>>
    THEN [severity |-> "ALLOW", policies |-> <<>>]
    ELSE LET severities == {objects[i].severity : i \in DOMAIN objects}
             policies   == [i \in DOMAIN objects |-> objects[i].policy_text]
         IN  IF severities \cap {"BLOCK", "block"} # {}
             THEN [severity |-> "BLOCK", policies |-> policies]
             ELSE IF "REQUIRE_APPROVAL" \in severities
                  THEN [severity |-> "REQUIRE_APPROVAL", policies |-> policies]
                  ELSE [severity |-> "ALLOW", policies |-> policies]

\* the reduction of the fetched objects
PolicyReduce(objects) ==
    IF objects = <<>>
    THEN [severity |-> "ALLOW", policies |-> <<>>]
    ELSE LET severities == {objects[i].severity : i \in DOMAIN objects}
             policies   == [i \in DOMAIN objects |-> objects[i].policy_text]
         IN  IF "BLOCK" \in severities
             THEN [severity |-> "BLOCK", policies |-> policies]
             ELSE IF "REQUIRE_APPROVAL" \in severities
                  THEN [severity |-> "REQUIRE_APPROVAL", policies |-> policies]
                  ELSE [severity |-> "ALLOW", policies |-> policies]

check_policy_constraints(workflow, role) ==
    PolicyReduce(FetchPolicies(HRPolicy, workflow, role))

--------------------------------------------------------------------------
(* approval_engine.py *)

\* the filter of get_approval_requirement
ApprovalFilter(obj, domain, workflow, action, role) ==
    /\ obj.domain = domain
    /\ obj.workflow = workflow
    /\ obj.action = action
    /\ obj.requested_by_role = role

\* collection.query.fetch_objects(filters=filters) on ApprovalPolicy
FetchApprovals(collection, domain, workflow, action, role) ==
    SelectSeq(collection, LAMBDA obj : ApprovalFilter(obj, domain, workflow, action, role))

\* mutant: no matching record is answered with the keys of a matched one
get_approval_requirementFullShape(domain, workflow, action, role) ==
    LET objects == FetchApprovals(ApprovalPolicy, domain, workflow, action, role)
    IN  IF objects = <<>>
        THEN [approval_required |-> FALSE,
              approver_roles    |-> <<>>,
              approval_level    |-> 0,
              auto_approve      |-> TRUE,
              escalation_role   |-> None]
        ELSE LET p == objects[1]
             IN  [approval_required |-> TRUE,
                  approver_roles    |-> p.approver_roles,
                  approval_level    |-> p.approval_level,
                  auto_approve      |-> p.auto_approve,
                  escalation_role   |-> p.escalation_role]

\* mutant: the last matching record is used
get_approval_requirementLastMatch(domain, workflow, action, role) ==
    LET objects == FetchApprovals(ApprovalPolicy, domain, workflow, action, role)
    IN  IF objects = <<>>
        THEN [approval_required |-> FALSE, auto_approve |-> TRUE]
        ELSE LET p == objects[Len(objects)]
             IN  [approval_required |-> TRUE,
                  approver_roles    |-> p.approver_roles,
                  approval_level    |-> p.approval_level,
                  auto_approve      |-> p.auto_approve,
                  escalation_role   |-> p.escalation_role]

get_approval_requirement(domain, workflow, action, role) ==
    LET objects == FetchApprovals(ApprovalPolicy, domain, workflow, action, role)
    IN  IF objects = <<>>
        THEN [approval_required |-> FALSE, auto_approve |-> TRUE]
        ELSE LET p == objects[1]
             IN  [approval_required |-> TRUE,
                  approver_roles    |-> p.approver_roles,
                  approval_level    |-> p.approval_level,
                  auto_approve      |-> p.auto_approve,
                  escalation_role   |-> p.escalation_role]

--------------------------------------------------------------------------
(* decision_resolver.py *)

\* mutant: an illegal transition does not end the evaluation
ProcessRejectsNever(p) == FALSE

\* line 15: the illegal transition ends the evaluation
ProcessRejects(p) == ~p.valid

\* mutant: the verdict names the policy store as the authority
ProcessBlockedWrongAuthority(p) ==
    [verdict |-> "BLOCKED", reason |-> p.reason, authority |-> "Weaviate"]

ProcessBlocked(p) ==
    [verdict |-> "BLOCKED", reason |-> p.reason, authority |-> ProcessAuthority]

\* mutant: the policy block carries no policy text
PolicyBlockedNoReason(pol) ==
    [verdict |-> "BLOCKED", reason |-> <<>>, authority |-> PolicyAuthority]

PolicyBlocked(pol) ==
    [verdict |-> "BLOCKED", reason |-> pol.policies, authority |-> PolicyAuthority]

NeedsApproval(pol, appr) ==
    [verdict |-> "NEEDS_APPROVAL", reason |-> pol.policies, approval |-> appr,
     authority |-> GovernanceLayer]

\* mutant: the allowing verdict carries an approval field
AllowedWithApproval ==
    [verdict |-> "ALLOWED", reason |-> "Process and policy compliant",
     approval |-> [approval_required |-> FALSE, auto_approve |-> TRUE],
     authority |-> GovernanceLayer]

Allowed ==
    [verdict |-> "ALLOWED", reason |-> "Process and policy compliant",
     authority |-> GovernanceLayer]

\* mutant: the approval lookup is made for the state being left
ApprovalActionCurrentState(s) == s.current_state

\* line 37: the action of the approval lookup is the state being entered
ApprovalAction(s) == s.next_state

\* mutant: the approval test comes before the BLOCK test
PolicyOutcomeApprovalFirst(p, pol) ==
    IF pol.severity = "REQUIRE_APPROVAL" \/ p.approval_required THEN "approval"
    ELSE IF pol.severity = "BLOCK" THEN "blocked"
    ELSE "allowed"

\* mutant: the legality answer's approval_required flag is not read
PolicyOutcomeIgnoresProcess(p, pol) ==
    IF pol.severity = "BLOCK" THEN "blocked"
    ELSE IF pol.severity = "REQUIRE_APPROVAL" THEN "approval"
    ELSE "allowed"

\* mutant: the policy severity REQUIRE_APPROVAL is not read
PolicyOutcomeIgnoresPolicy(p, pol) ==
    IF pol.severity = "BLOCK" THEN "blocked"
    ELSE IF p.approval_required THEN "approval"
    ELSE "allowed"

\* lines 25 to 53: which branch the policy result and the legality answer select
PolicyOutcome(p, pol) ==
    IF pol.severity = "BLOCK" THEN "blocked"
    ELSE IF pol.severity = "REQUIRE_APPROVAL" \/ p.approval_required THEN "approval"
    ELSE "allowed"

--------------------------------------------------------------------------
(* governance_node.py and the steps of one attempt *)

NoCalls == [legality |-> 0, policy |-> 0, approval |-> 0]

\* mutant: a store query that is made is made again
InvokeWithRetry(c, name) ==
    [c EXCEPT ![name] = IF name = "legality" THEN @ + 1 ELSE @ + 2]

\* mutant: the approval lookup is started together with the policy query
InvokeApprovalWithPolicy(c, name) ==
    IF name = "policy"
    THEN [c EXCEPT !.policy = @ + 1, !.approval = @ + 1]
    ELSE [c EXCEPT ![name] = @ + 1]

\* the call counts after the collaborator name is invoked once
Invoke(c, name) == [c EXCEPT ![name] = @ + 1]

\* mutant: governance_node returns a new dict holding the verdict alone
ReturnFreshDict(v) ==
    /\ decision' = v
    /\ state' = [k \in {"governance_verdict"} |-> v]
    /\ pc' = "returned"
    /\ failure' = Absent

\* governance_decision returns v; governance_node stores it and returns state
Return(v) ==
    /\ decision' = v
    /\ state' = [k \in DOMAIN state \cup {"governance_verdict"} |->
                    IF k = "governance_verdict" THEN v ELSE state[k]]
    /\ pc' = "returned"
    /\ failure' = Absent

\* mutant: a failed collaborator call is caught and answered with ALLOWED
RaiseCaughtAsAllowed(err) ==
    Return(Allowed)

\* an exception leaves governance_decision and governance_node: neither has a
\* try statement
Raise(err) ==
    /\ failure' = [error |-> err]
    /\ pc' = "raised"
    /\ UNCHANGED <<decision, state>>

\* the callers of weaviate_client are not followed one by one
ClientUnused ==
    /\ connections = <<>>
    /\ threads = <<>>

\* no Odoo server is attached
OdooUnused ==
    /\ odoo = Absent
    /\ rpcs = <<>>
    /\ result = Absent

Init ==
    /\ HRPolicy \in SeqsUpTo(HRPolicyPool, MaxPolicies)
    /\ ApprovalPolicy \in SeqsUpTo(ApprovalPolicyPool, MaxApprovals)
    /\ _client = NoClient
    /\ state = NoState
    /\ pc = "idle"
    /\ process = Absent
    /\ policy = Absent
    /\ approval = Absent
    /\ decision = Absent
    /\ failure = Absent
    /\ calls = NoCalls
    /\ prev = Absent
    /\ ClientUnused
    /\ OdooUnused

\* governance_node(s) up to the call of check_process_legality; a missing key
\* raises KeyError while the arguments are read
NodeCall(dicts) ==
    /\ pc = "idle"
    /\ \E s \in dicts :
          IF RequiredKeys \subseteq DOMAIN s
          THEN /\ state' = s
               /\ pc' = "legality"
               /\ calls' = Invoke(calls, "legality")
               /\ UNCHANGED <<failure, decision>>
          ELSE /\ state' = s
               /\ failure' = [error |-> "KeyError"]
               /\ pc' = "raised"
               /\ UNCHANGED <<decision, calls>>
    /\ UNCHANGED <<HRPolicy, ApprovalPolicy, _client, process, policy, approval>>
    /\ UNCHANGED <<clientVars, odooVars>>

governance_node ==
    /\ NodeCall(TransitionStates)
    /\ UNCHANGED prev

\* check_process_legality answers; governance_decision runs up to the call of
\* check_policy_constraints or returns
LegalityStep(answers) ==
    /\ pc = "legality"
    /\ \E p \in answers :
          /\ process' = p
          /\ IF ProcessRejects(p)
             THEN /\ Return(ProcessBlocked(p))
                  /\ UNCHANGED calls
             ELSE /\ pc' = "policy"
                  /\ calls' = Invoke(calls, "policy")
                  /\ UNCHANGED <<failure, decision, state>>
    /\ UNCHANGED <<HRPolicy, ApprovalPolicy, _client, policy, approval>>
    /\ UNCHANGED <<clientVars, odooVars>>

LegalityReturns ==
    /\ pc = "legality"
    /\ LegalityStep(LegalityAnswers(state.current_state, state.next_state, state.role))
    /\ UNCHANGED prev

\* check_process_legality does not complete
LegalityFails ==
    /\ pc = "legality"
    /\ Raise("NebulaGraphError")
    /\ UNCHANGED <<HRPolicy, ApprovalPolicy, _client, process, policy, approval, calls, prev>>
    /\ UNCHANGED <<clientVars, odooVars>>

\* check_policy_constraints returns; governance_decision runs up to the call of
\* get_approval_requirement or returns
PolicyReturns ==
    /\ pc = "policy"
    /\ _client' = get_client(_client)
    /\ LET pol == check_policy_constraints(state.workflow, state.role)
           out == PolicyOutcome(process, pol)
       IN  /\ policy' = pol
           /\ IF out = "blocked"
              THEN /\ Return(PolicyBlocked(pol))
                   /\ UNCHANGED calls
              ELSE IF out = "approval"
              THEN /\ pc' = "approval"
                   /\ calls' = Invoke(calls, "approval")
                   /\ UNCHANGED <<failure, decision, state>>
              ELSE /\ Return(Allowed)
                   /\ UNCHANGED calls
    /\ UNCHANGED <<HRPolicy, ApprovalPolicy, process, approval, prev>>
    /\ UNCHANGED <<clientVars, odooVars>>

\* check_policy_constraints does not complete: connect_to_local fails (only
\* when no client is held), or the query on the held client fails
PolicyFails ==
    /\ pc = "policy"
    /\ \/ /\ _client = NoClient
          /\ Raise("WeaviateConnectionError")
          /\ UNCHANGED _client
       \/ /\ _client' = get_client(_client)
          /\ Raise("WeaviateQueryError")
    /\ UNCHANGED <<HRPolicy, ApprovalPolicy, process, policy, approval, calls, prev>>
    /\ UNCHANGED <<clientVars, odooVars>>

\* get_approval_requirement returns; governance_decision returns
ApprovalReturns ==
    /\ pc = "approval"
    /\ _client' = get_client(_client)
    /\ LET appr == get_approval_requirement(HRDomain, state.workflow,
                                            ApprovalAction(state), state.role)
       IN  /\ approval' = appr
           /\ Return(NeedsApproval(policy, appr))
    /\ UNCHANGED <<HRPolicy, ApprovalPolicy, process, policy, calls, prev>>
    /\ UNCHANGED <<clientVars, odooVars>>

\* get_approval_requirement does not complete
ApprovalFails ==
    /\ pc = "approval"
    /\ _client' = get_client(_client)
    /\ Raise("WeaviateQueryError")
    /\ UNCHANGED <<HRPolicy, ApprovalPolicy, process, policy, approval, calls, prev>>
    /\ UNCHANGED <<clientVars, odooVars>>

\* weaviate_client.close_client(), called between attempts
close_client ==
    /\ pc = "idle"
    /\ _client' = IF _client # NoClient THEN NoClient ELSE _client
    /\ UNCHANGED <<HRPolicy, ApprovalPolicy, state, pc, process, policy, approval,
                   decision, failure, calls, prev>>
    /\ UNCHANGED <<clientVars, odooVars>>

\* the caller takes the verdict or the exception; the attempt is over
EndAttempt ==
    /\ pc \in {"returned", "raised"}
    /\ state' = NoState
    /\ pc' = "idle"
    /\ process' = Absent
    /\ policy' = Absent
    /\ approval' = Absent
    /\ decision' = Absent
    /\ failure' = Absent
    /\ calls' = NoCalls
    /\ UNCHANGED <<HRPolicy, ApprovalPolicy, _client>>
    /\ UNCHANGED <<clientVars, odooVars>>

Finish ==
    /\ EndAttempt
    /\ UNCHANGED prev

Next ==
    \/ governance_node
    \/ LegalityReturns
    \/ LegalityFails
    \/ PolicyReturns
    \/ PolicyFails
    \/ ApprovalReturns
    \/ ApprovalFails
    \/ close_client
    \/ Finish

Spec == Init /\ [][Next]_vars

--------------------------------------------------------------------------
(* Two consecutive calls with the same arguments and the same legality      *)
(* answer: the steps are those of Spec, the second call of a pair is given  *)
(* the dict and the legality answer of the first.                           *)

\* the dict as it was handed to governance_node
DictAtCall(s) == [k \in DOMAIN s \ {"governance_verdict"} |-> s[k]]

InitTwice ==
    /\ HRPolicy \in SeqsUpTo(HRPolicyPool, MaxRepeatRecords)
    /\ ApprovalPolicy \in SeqsUpTo(ApprovalPolicyPool, MaxRepeatRecords)
    /\ _client = NoClient
    /\ state = NoState
    /\ pc = "idle"
    /\ process = Absent
    /\ policy = Absent
    /\ approval = Absent
    /\ decision = Absent
    /\ failure = Absent
    /\ calls = NoCalls
    /\ prev = Absent
    /\ ClientUnused
    /\ OdooUnused

\* governance_node, called again with the dict of the call before
governance_node_again ==
    /\ NodeCall(IF prev = Absent THEN TransitionStates ELSE {prev.state})
    /\ UNCHANGED prev

\* check_process_legality answers, and answers a repeated call as before
LegalityReturnsAgain ==
    /\ pc = "legality"
    /\ LegalityStep(IF prev = Absent
                    THEN LegalityAnswers(state.current_state, state.next_state, state.role)
                    ELSE {prev.process})
    /\ UNCHANGED prev

\* the caller takes the verdict and keeps it beside the next call's
FinishRemember ==
    /\ EndAttempt
    /\ prev' = IF pc = "returned" /\ prev = Absent
               THEN [state |-> DictAtCall(state), process |-> process,
                     decision |-> decision]
               ELSE Absent

NextTwice ==
    \/ governance_node_again
    \/ LegalityReturnsAgain
    \/ LegalityFails
    \/ PolicyReturns
    \/ PolicyFails
    \/ ApprovalReturns
    \/ ApprovalFails
    \/ close_client
    \/ FinishRemember

SpecTwice == InitTwice /\ [][NextTwice]_vars

--------------------------------------------------------------------------
(* Properties *)

\* the HRPolicy records the store holds for (HR, workflow, role), in
\* store-return order, read off the collection itself
MatchedRecords ==
    SelectSeq(HRPolicy, LAMBDA r : /\ r.domain = "HR"
                                   /\ r.applies_to = state.workflow
                                   /\ state.role \in r.roles)

MatchedSeverities == {MatchedRecords[i].severity : i \in DOMAIN MatchedRecords}

\* every reordering of the sequence s
Reorderings(s) ==
    LET n == Len(s)
        bij == {f \in [1..n -> 1..n] : \A i, j \in 1..n : f[i] = f[j] => i = j}
    IN  {[i \in 1..n |-> s[f[i]]] : f \in bij}

\* C1: when the legality answer has valid = false, the verdict returned is
\* exactly {BLOCKED, the legality answer's reason, the process authority},
\* whatever the two stores hold.
C1_IllegalTransitionBlocked ==
    (pc = "returned" /\ ~process.valid) =>
        decision = [verdict |-> "BLOCKED", reason |-> process.reason,
                    authority |-> "NebulaGraph"]

\* an illegal transition was blocked although the stores hold records for it
C1_Witness ==
    /\ pc = "returned"
    /\ ~process.valid
    /\ process.reason = "Role may not act"
    /\ decision.verdict = "BLOCKED"
    /\ Len(MatchedRecords) > 0
    /\ Len(ApprovalPolicy) > 0

\* C2: once the legality answer has valid = false, neither
\* check_policy_constraints nor get_approval_requirement is invoked: both call
\* counts are 0 in every state of the attempt, up to the return of the verdict.
C2_NoCallsAfterIllegal ==
    (process # Absent /\ ~process.valid) =>
        /\ calls.policy = 0
        /\ calls.approval = 0
        /\ pc = "returned"
        /\ policy = Absent
        /\ approval = Absent

\* the verdict of an illegal transition was returned after one legality call
C2_Witness ==
    /\ pc = "returned"
    /\ ~process.valid
    /\ process.approval_required
    /\ calls = [legality |-> 1, policy |-> 0, approval |-> 0]
    /\ \E i \in DOMAIN MatchedRecords : MatchedRecords[i].severity = "REQUIRE_APPROVAL"

\* C3: when the legality answer is valid and the reduced policy severity is
\* BLOCK, the verdict is {BLOCKED, the matched policy texts, the policy
\* authority}, whether or not the legality answer asks for approval.
C3_PolicyBlockWins ==
    (pc = "returned" /\ policy # Absent /\ process.valid /\ policy.severity = "BLOCK") =>
        /\ decision.verdict = "BLOCKED"
        /\ decision = [verdict |-> "BLOCKED", reason |-> policy.policies,
                       authority |-> "Weaviate"]
        /\ decision.reason = [i \in DOMAIN MatchedRecords |-> MatchedRecords[i].policy_text]

\* a policy block was returned although the legality answer asked for approval
C3_Witness ==
    /\ pc = "returned"
    /\ policy # Absent
    /\ process.valid
    /\ process.approval_required
    /\ policy.severity = "BLOCK"
    /\ Len(policy.policies) = 2
    /\ decision.authority = "Weaviate"

\* C4: when the legality answer is valid, the severity is not BLOCK, and the
\* severity is REQUIRE_APPROVAL or the legality answer asks for approval, the
\* verdict is NEEDS_APPROVAL by the governance layer, its reason the matched
\* policy texts and its approval field get_approval_requirement's result.
C4_NeedsApproval ==
    (/\ pc = "returned"
     /\ policy # Absent
     /\ process.valid
     /\ policy.severity # "BLOCK"
     /\ (policy.severity = "REQUIRE_APPROVAL" \/ process.approval_required)) =>
        /\ decision.verdict = "NEEDS_APPROVAL"
        /\ decision.authority = "GovernanceLayer"
        /\ decision.reason = policy.policies
        /\ approval # Absent
        /\ DOMAIN decision = {"verdict", "reason", "approval", "authority"}
        /\ decision.approval = approval

\* approval was asked for by the legality answer alone, and a record answered
C4_Witness ==
    /\ pc = "returned"
    /\ policy # Absent
    /\ policy.severity = "ALLOW"
    /\ process.approval_required
    /\ decision.verdict = "NEEDS_APPROVAL"
    /\ decision.approval.approval_required
    /\ Len(decision.reason) > 0

\* C5: when the legality answer is valid without approval and the severity is
\* ALLOW, the verdict is exactly {ALLOWED, "Process and policy compliant",
\* GovernanceLayer}; ALLOWED is returned in no other case.
C5_AllowedExactly ==
    pc = "returned" =>
        LET compliant == /\ process.valid
                         /\ ~process.approval_required
                         /\ policy # Absent
                         /\ policy.severity = "ALLOW"
        IN  /\ compliant =>
                decision = [verdict |-> "ALLOWED",
                            reason |-> "Process and policy compliant",
                            authority |-> "GovernanceLayer"]
            /\ decision.verdict = "ALLOWED" => compliant

\* a transition was allowed with policies matched for it
C5_Witness ==
    /\ pc = "returned"
    /\ decision.verdict = "ALLOWED"
    /\ policy # Absent
    /\ Len(policy.policies) = 2
    /\ "governance_verdict" \in DOMAIN state

\* C6: with a valid legality answer, a matched record of severity BLOCK makes
\* the verdict BLOCKED, and a matched record of severity REQUIRE_APPROVAL or
\* an approval_required legality answer keeps the verdict from being ALLOWED.
C6_NoDowngrade ==
    (pc = "returned" /\ process.valid) =>
        /\ "BLOCK" \in MatchedSeverities => decision.verdict = "BLOCKED"
        /\ ("REQUIRE_APPROVAL" \in MatchedSeverities \/ process.approval_required) =>
               decision.verdict # "ALLOWED"

\* a block was returned where a permissive record precedes the blocking one
C6_Witness ==
    /\ pc = "returned"
    /\ process.valid
    /\ Len(MatchedRecords) = 2
    /\ MatchedRecords[1].severity = "ALLOW"
    /\ MatchedRecords[2].severity = "BLOCK"
    /\ decision.verdict = "BLOCKED"

\* C7: a verdict is returned only when every collaborator call of the attempt
\* completed; when one failed, the attempt ends with that failure, no verdict
\* and no policy result, and the caller's dict holds no verdict.
C7_FailuresPropagate ==
    /\ pc = "returned" =>
          /\ process # Absent
          /\ calls.policy = 1 => policy # Absent
          /\ calls.approval = 1 => approval # Absent
          /\ failure = Absent
    /\ pc = "raised" =>
          /\ decision = Absent
          /\ failure # Absent
          /\ "governance_verdict" \notin DOMAIN state
          /\ (calls.legality = 1 /\ calls.policy = 0) =>
                 (process = Absent /\ failure.error = "NebulaGraphError")
          /\ (calls.policy = 1 /\ calls.approval = 0) =>
                 (policy = Absent /\ failure.error \in {"WeaviateConnectionError",
                                                        "WeaviateQueryError"})
          /\ calls.approval = 1 =>
                 (approval = Absent /\ failure.error = "WeaviateQueryError")
    /\ decision # Absent => pc = "returned"

\* the policy store failed where no record matched
C7_Witness ==
    /\ pc = "raised"
    /\ calls = [legality |-> 1, policy |-> 1, approval |-> 0]
    /\ failure.error = "WeaviateConnectionError"
    /\ Len(MatchedRecords) = 0
    /\ decision = Absent

\* a required key is missing from the dict, or its value is None
Malformed(s) == \E k \in RequiredKeys : k \notin DOMAIN s \/ s[k] = None

\* C8: a malformed request fails before any collaborator is called.
C8_MalformedFailsFirst ==
    (pc # "idle" /\ Malformed(state)) =>
        /\ pc = "raised"
        /\ calls = NoCalls

\* C9: for a non-empty list of matched records the severity is BLOCK if any
\* record has BLOCK, else REQUIRE_APPROVAL if any has it, else ALLOW, and
\* every order of the same records gives the same severity.
C9_PolicyReduction ==
    (policy # Absent /\ Len(MatchedRecords) > 0) =>
        /\ policy.severity =
              IF "BLOCK" \in MatchedSeverities THEN "BLOCK"
              ELSE IF "REQUIRE_APPROVAL" \in MatchedSeverities THEN "REQUIRE_APPROVAL"
              ELSE "ALLOW"
        /\ \A other \in Reorderings(MatchedRecords) :
              PolicyReduce(other).severity = policy.severity

\* BLOCK was the severity with a REQUIRE_APPROVAL record returned first
C9_Witness ==
    /\ policy # Absent
    /\ Len(MatchedRecords) = 2
    /\ MatchedRecords[1].severity = "REQUIRE_APPROVAL"
    /\ MatchedRecords[2].severity = "BLOCK"
    /\ policy.severity = "BLOCK"

\* C10: policies holds the policy_text of every matched record, once per
\* record, in store-return order.
C10_AllPolicyTexts ==
    policy # Absent =>
        /\ Len(policy.policies) = Len(MatchedRecords)
        /\ \A i \in DOMAIN MatchedRecords :
              policy.policies[i] = MatchedRecords[i].policy_text

\* two records with the same text: the text is listed twice, and the record
\* that did not decide the severity is listed first
C10_Witness ==
    /\ policy # Absent
    /\ Len(MatchedRecords) = 2
    /\ MatchedRecords[1].severity = "block"
    /\ MatchedRecords[2].severity = "BLOCK"
    /\ policy.policies = <<"Hiring freeze", "Hiring freeze">>

\* the ApprovalPolicy records the store holds for the tuple (HR, workflow,
\* next_state, role) of the request, in store-return order, read off the
\* collection itself
MatchedApprovals ==
    SelectSeq(ApprovalPolicy, LAMBDA r : /\ r.domain = "HR"
                                         /\ r.workflow = state.workflow
                                         /\ r.action = state.next_state
                                         /\ r.requested_by_role = state.role)

\* C11: in every result of check_policy_constraints an empty policies list
\* comes with severity ALLOW, and a query matching no record returns exactly
\* {severity: ALLOW, policies: []} as a result, not a failure.
C11_EmptyPoliciesAllow ==
    /\ policy # Absent =>
          /\ policy.policies = <<>> => policy.severity = "ALLOW"
          /\ Len(MatchedRecords) = 0 => policy = [severity |-> "ALLOW", policies |-> <<>>]
    /\ (pc = "raised" /\ calls.policy = 1 /\ calls.approval = 0) => policy = Absent

\* the store holds records, none for this request, and the transition went on
C11_Witness ==
    /\ pc = "returned"
    /\ policy = [severity |-> "ALLOW", policies |-> <<>>]
    /\ Len(HRPolicy) = 2
    /\ decision.verdict = "ALLOWED"

\* C12: when no ApprovalPolicy record matches the tuple,
\* get_approval_requirement returns exactly {approval_required: false,
\* auto_approve: true}, with no other key, as a result.
C12_NoApprovalRecord ==
    (approval # Absent /\ Len(MatchedApprovals) = 0) =>
        /\ approval = [approval_required |-> FALSE, auto_approve |-> TRUE]
        /\ DOMAIN approval = {"approval_required", "auto_approve"}
        /\ pc = "returned"

\* the lookup ran on a store whose records are all for other tuples
C12_Witness ==
    /\ approval # Absent
    /\ Len(MatchedApprovals) = 0
    /\ Len(ApprovalPolicy) = 2
    /\ ~approval.approval_required

\* C13: when records match by equality on all four fields, the result is
\* approval_required = true with approver_roles, approval_level, auto_approve
\* and escalation_role of the first of them in store-return order.
C13_FirstApprovalRecord ==
    (approval # Absent /\ Len(MatchedApprovals) > 0) =>
        /\ approval = [approval_required |-> TRUE,
                       approver_roles    |-> MatchedApprovals[1].approver_roles,
                       approval_level    |-> MatchedApprovals[1].approval_level,
                       auto_approve      |-> MatchedApprovals[1].auto_approve,
                       escalation_role   |-> MatchedApprovals[1].escalation_role]
        /\ pc = "returned"

\* two records match and differ; the first one was used
C13_Witness ==
    /\ approval # Absent
    /\ Len(MatchedApprovals) = 2
    /\ MatchedApprovals[1].escalation_role = "CEO"
    /\ MatchedApprovals[2].escalation_role = "HR_DIRECTOR"
    /\ approval.escalation_role = "CEO"
    /\ approval.approval_level = 2

\* C14: the approval field of a NEEDS_APPROVAL verdict is the answer for the
\* tuple (HR, workflow, next_state, role); with the record of
\* setup_approval_policy.py as the one stored for the tuple, the request of
\* test_governance.py gets that record's four fields.
C14_ApprovalForNextState ==
    (pc = "returned" /\ decision.verdict = "NEEDS_APPROVAL") =>
        /\ decision.approval.approval_required = (Len(MatchedApprovals) > 0)
        /\ Len(MatchedApprovals) > 0 =>
              /\ decision.approval.approver_roles = MatchedApprovals[1].approver_roles
              /\ decision.approval.escalation_role = MatchedApprovals[1].escalation_role
        /\ ([k \in RequiredKeys |-> state[k]] = TestState
              /\ Len(MatchedApprovals) > 0
              /\ MatchedApprovals[1] = SetupApprovalRecord) =>
              decision.approval = [approval_required |-> TRUE,
                                   approver_roles    |-> <<"HR_MANAGER">>,
                                   approval_level    |-> 1,
                                   auto_approve      |-> FALSE,
                                   escalation_role   |-> "HR_DIRECTOR"]

\* the stored records are the inserted one and one for the state being left
C14_Witness ==
    /\ pc = "returned"
    /\ decision.verdict = "NEEDS_APPROVAL"
    /\ [k \in RequiredKeys |-> state[k]] = TestState
    /\ Len(ApprovalPolicy) = 2
    /\ ApprovalPolicy[1].action = "OfferMade"
    /\ ApprovalPolicy[2] = SetupApprovalRecord
    /\ decision.approval.approver_roles = <<"HR_MANAGER">>

\* C15: a BLOCKED verdict carries a non-empty reason: the legality answer's
\* reason string from the process authority, or a non-empty list of matched
\* policy texts from the policy authority.
C15_BlockedHasReason ==
    (pc = "returned" /\ decision.verdict = "BLOCKED") =>
        IF decision.authority = "NebulaGraph"
        THEN /\ ~process.valid
             /\ decision.reason = process.reason
             /\ decision.reason # ""
        ELSE /\ decision.authority = "Weaviate"
             /\ Len(decision.reason) > 0
             /\ Len(decision.reason) = Len(MatchedRecords)

\* a policy block with one matched text
C15_Witness ==
    /\ pc = "returned"
    /\ decision.verdict = "BLOCKED"
    /\ decision.authority = "Weaviate"
    /\ decision.reason = <<"Contract must be signed">>

\* C16: a NEEDS_APPROVAL verdict carries the approver roles and the
\* escalation role in its approval field.
C16_ApprovalRoutable ==
    (pc = "returned" /\ ~Malformed(state) /\ decision.verdict = "NEEDS_APPROVAL") =>
        {"approver_roles", "escalation_role"} \subseteq DOMAIN decision.approval

\* C17: the approval field is present exactly in NEEDS_APPROVAL verdicts;
\* BLOCKED and ALLOWED verdicts have the fields verdict, reason, authority.
C17_ApprovalFieldOnlyWhenNeeded ==
    pc = "returned" =>
        /\ decision.verdict \in {"BLOCKED", "ALLOWED", "NEEDS_APPROVAL"}
        /\ ("approval" \in DOMAIN decision) <=> (decision.verdict = "NEEDS_APPROVAL")
        /\ decision.verdict # "NEEDS_APPROVAL" =>
               DOMAIN decision = {"verdict", "reason", "authority"}
        /\ decision.verdict = "NEEDS_APPROVAL" =>
               DOMAIN decision = {"verdict", "reason", "approval", "authority"}

\* an allowing verdict returned while the store holds a record for the tuple
C17_Witness ==
    /\ pc = "returned"
    /\ decision.verdict = "ALLOWED"
    /\ Len(MatchedApprovals) > 0
    /\ DOMAIN decision = {"verdict", "reason", "authority"}

\* the place of a control position in the single pass
Rank(p) ==
    CASE p = "idle" -> 0
      [] p = "legality" -> 1
      [] p = "policy" -> 2
      [] p = "approval" -> 3
      [] OTHER -> 4

\* C19: an evaluation is one pass: each collaborator is invoked at most once
\* and in its place, every step moves forward, a pending collaborator answer
\* always lets the evaluation go on, and the pass ends with exactly one
\* verdict out of ALLOWED, BLOCKED, NEEDS_APPROVAL (or with the failure).
C19_SinglePass ==
    /\ [](/\ calls.legality \in {0, 1}
          /\ calls.policy \in {0, 1}
          /\ calls.approval \in {0, 1}
          /\ pc = "legality" => (calls = [legality |-> 1, policy |-> 0, approval |-> 0]
                                 /\ ENABLED LegalityReturns)
          /\ pc = "policy" => (calls = [legality |-> 1, policy |-> 1, approval |-> 0]
                               /\ ENABLED PolicyReturns)
          /\ pc = "approval" => (calls = [legality |-> 1, policy |-> 1, approval |-> 1]
                                 /\ ENABLED ApprovalReturns)
          /\ pc = "returned" => (/\ decision.verdict \in {"ALLOWED", "BLOCKED", "NEEDS_APPROVAL"}
                                 /\ failure = Absent
                                 /\ calls.legality = 1)
          /\ pc = "raised" => decision = Absent)
    /\ [][/\ pc' # "idle" => Rank(pc') > Rank(pc)
          /\ (decision # Absent /\ pc' # "idle") => decision' = decision]_vars

\* a pass through all three collaborators ended with its verdict
C19_Witness ==
    /\ pc = "returned"
    /\ calls = [legality |-> 1, policy |-> 1, approval |-> 1]
    /\ decision.verdict = "NEEDS_APPROVAL"
    /\ policy.severity = "REQUIRE_APPROVAL"

\* C20: governance_node stores the verdict of its one governance_decision
\* call under governance_verdict in the dict it was given and keeps every
\* other key as it was; when the call fails the dict gets no governance_verdict.
C20_NodeStoresVerdict ==
    /\ [](/\ pc = "returned" => (/\ "governance_verdict" \in DOMAIN state
                                 /\ state["governance_verdict"] = decision
                                 /\ calls.legality = 1)
          /\ pc \in {"legality", "policy", "approval", "raised"} =>
                 "governance_verdict" \notin DOMAIN state)
    /\ [][(pc # "idle" /\ pc' # "idle") =>
             /\ DOMAIN state' \subseteq DOMAIN state \cup {"governance_verdict"}
             /\ \A k \in DOMAIN state :
                   /\ k \in DOMAIN state'
                   /\ k # "governance_verdict" => state'[k] = state[k]]_vars

\* a dict with a key of the caller's own came back with the verdict added
C20_Witness ==
    /\ pc = "returned"
    /\ DOMAIN state = RequiredKeys \cup {"candidate", "governance_verdict"}
    /\ state["candidate"] = "C-1042"
    /\ state["governance_verdict"].verdict = "NEEDS_APPROVAL"

\* what one step of a call may change of what a later call reads: nothing,
\* if keepsClient; else nothing but _client, set when no connection was held
CallLeaves(keepsClient) ==
    (pc # "idle" /\ pc' # "idle") =>
        /\ HRPolicy' = HRPolicy
        /\ ApprovalPolicy' = ApprovalPolicy
        /\ DictAtCall(state') = DictAtCall(state)
        /\ \/ _client' = _client
           \/ ~keepsClient /\ _client = NoClient /\ _client' = connect_to_local

\* the second call of a pair returned the verdict of the first
SameVerdictTwice ==
    (pc = "returned" /\ prev # Absent) =>
        /\ DictAtCall(state) = prev.state
        /\ process = prev.process
        /\ decision.verdict = prev.decision.verdict
        /\ decision = prev.decision

\* C18 as stated: two consecutive calls with the same arguments on unchanged
\* collaborators return the same verdict, and the first call changes nothing
\* that the second call reads.
C18_Original ==
    /\ []SameVerdictTwice
    /\ [][CallLeaves(TRUE)]_vars

\* C18 as amended: two consecutive calls with the same arguments on unchanged
\* collaborators return the same verdict; of what the second call reads the
\* first changes only weaviate_client._client, which it sets to the
\* connection it makes when none is held.
C18_Determinism ==
    /\ []SameVerdictTwice
    /\ [][CallLeaves(FALSE)]_vars

\* the second call of a pair returned, through the approval lookup
C18_Witness ==
    /\ pc = "returned"
    /\ prev # Absent
    /\ prev.decision.verdict = "NEEDS_APPROVAL"
    /\ decision.approval.approval_required
    /\ calls = [legality |-> 1, policy |-> 1, approval |-> 1]

--------------------------------------------------------------------------
(* weaviate_client.py, statement by statement.  The objects connect_to_local *)
(* returns have identity: connections[n] counts how often close() ran on    *)
(* the n-th of them, and _client holds NoClient or Connection(n).  A caller *)
(* runs one module function at a time; a step is one line of it.            *)

governanceVars == <<HRPolicy, ApprovalPolicy, state, pc, process, policy,
                    approval, decision, failure, calls, prev>>

\* no governance request is under way and the stores are not looked at
GovernanceUnused ==
    /\ HRPolicy = <<>>
    /\ ApprovalPolicy = <<>>
    /\ state = NoState
    /\ pc = "idle"
    /\ process = Absent
    /\ policy = Absent
    /\ approval = Absent
    /\ decision = Absent
    /\ failure = Absent
    /\ calls = NoCalls
    /\ prev = Absent

\* the n-th object connect_to_local returned
Connection(n) == [client |-> TRUE, id |-> n]

\* mutant: get_client connects whatever _client holds
NeedsConnectAlways(held) == TRUE

\* line 7: _client is None
NeedsConnect(held) == held = NoClient

\* line 13: the truth value of _client
Truthy(held) == held # NoClient

\* connect_to_local(skip_init_checks=True) returned one more object
Connect(conns) == Append(conns, [closed |-> 0])

\* _client.close()
Close(conns, c) == [conns EXCEPT ![c.id].closed = @ + 1]

\* a caller between two calls
Caller ==
    [pc |-> "idle", tested |-> Absent, made |-> Absent, handed |-> Absent,
     last |-> "none"]

\* one caller: the calls are made one after the other
InitSequential ==
    /\ GovernanceUnused
    /\ OdooUnused
    /\ _client = NoClient
    /\ connections = <<>>
    /\ threads = [t \in {1} |-> Caller]

\* callers running at the same time
InitConcurrent ==
    /\ GovernanceUnused
    /\ OdooUnused
    /\ _client = NoClient
    /\ connections = <<>>
    /\ threads = [t \in 1..MaxCallers |-> Caller]

\* get_client() is called; line 7 reads _client
GetClientTest(t) ==
    /\ t \in DOMAIN threads
    /\ threads[t].pc = "idle"
    /\ threads' = [threads EXCEPT ![t].tested = _client,
                                   ![t].made = Absent,
                                   ![t].handed = Absent,
                                   ![t].pc = IF NeedsConnect(_client)
                                             THEN "get_connect" ELSE "get_return"]
    /\ UNCHANGED <<_client, connections, governanceVars, odooVars>>

\* line 8, right-hand side: connect_to_local returns an object, or raises
GetClientConnect(t) ==
    /\ t \in DOMAIN threads
    /\ threads[t].pc = "get_connect"
    /\ \/ /\ Len(connections) < MaxConnections
          /\ connections' = Connect(connections)
          /\ threads' = [threads EXCEPT ![t].made = Connection(Len(connections) + 1),
                                         ![t].pc = "get_store"]
       \/ /\ threads' = [threads EXCEPT ![t].pc = "idle",
                                         ![t].last = "get_client raised"]
          /\ UNCHANGED <<connections, governanceVars, odooVars>>
    /\ UNCHANGED <<_client, governanceVars, odooVars>>

\* line 8, the assignment to the global
GetClientStore(t) ==
    /\ t \in DOMAIN threads
    /\ threads[t].pc = "get_store"
    /\ _client' = threads[t].made
    /\ threads' = [threads EXCEPT ![t].pc = "get_return"]
    /\ UNCHANGED <<connections, governanceVars, odooVars>>

\* line 9: the global is read again and returned
GetClientReturn(t) ==
    /\ t \in DOMAIN threads
    /\ threads[t].pc = "get_return"
    /\ threads' = [threads EXCEPT ![t].handed = _client,
                                   ![t].pc = "idle",
                                   ![t].last = "get_client"]
    /\ UNCHANGED <<_client, connections, governanceVars, odooVars>>

\* close_client() is called; line 13 reads _client
CloseClientTest(t) ==
    /\ t \in DOMAIN threads
    /\ threads[t].pc = "idle"
    /\ threads' = [threads EXCEPT ![t].tested = _client,
                                   ![t].made = Absent,
                                   ![t].pc = IF Truthy(_client) THEN "close_close" ELSE "idle",
                                   ![t].last = IF Truthy(_client) THEN @ ELSE "close_client"]
    /\ UNCHANGED <<_client, connections, governanceVars, odooVars>>

\* line 14: the global is read again and close() is called on it; on None
\* that is an AttributeError
CloseClientClose(t) ==
    /\ t \in DOMAIN threads
    /\ threads[t].pc = "close_close"
    /\ IF _client = NoClient
       THEN /\ threads' = [threads EXCEPT ![t].pc = "idle",
                                           ![t].last = "close_client raised"]
            /\ UNCHANGED <<connections, governanceVars, odooVars>>
       ELSE /\ connections' = Close(connections, _client)
            /\ threads' = [threads EXCEPT ![t].pc = "close_clear"]
    /\ UNCHANGED <<_client, governanceVars, odooVars>>

\* line 15
CloseClientClear(t) ==
    /\ t \in DOMAIN threads
    /\ threads[t].pc = "close_clear"
    /\ _client' = NoClient
    /\ threads' = [threads EXCEPT ![t].pc = "idle", ![t].last = "close_client"]
    /\ UNCHANGED <<connections, governanceVars, odooVars>>

\* the caller queries a collection through the client it was handed
\* (policy_engine.py lines 14 to 22, approval_engine.py lines 11 to 20)
UseClient(t) ==
    /\ t \in DOMAIN threads
    /\ threads[t].pc = "idle"
    /\ threads[t].last = "get_client"
    /\ threads' = [threads EXCEPT ![t].last =
                       IF threads[t].handed = NoClient THEN "query raised"
                       ELSE IF connections[threads[t].handed.id].closed > 0
                            THEN "query raised"
                            ELSE "query"]
    /\ UNCHANGED <<_client, connections, governanceVars, odooVars>>

NextClient ==
    \E t \in 1..MaxCallers :
        \/ GetClientTest(t)
        \/ GetClientConnect(t)
        \/ GetClientStore(t)
        \/ GetClientReturn(t)
        \/ UseClient(t)
        \/ CloseClientTest(t)
        \/ CloseClientClose(t)
        \/ CloseClientClear(t)

SpecSequential == InitSequential /\ [][NextClient]_vars

SpecConcurrent == InitConcurrent /\ [][NextClient]_vars

--------------------------------------------------------------------------
(* mcp-odoo: odoo_client.py and the tools of tools/crm.py, tools/hr.py.     *)
(* odoo.tables[m] is the table of model m, a record's id its index.  A     *)
(* many2one field holds an id, or Unset where Odoo answers False.  A       *)
(* domain is a sequence of terms <<field, operator, value>> and of the     *)
(* prefix operator Or.  A tool call is one step: it leaves the RPCs it     *)
(* sent in rpcs and what it returned or raised in result.                  *)

\* OdooClient.MAX_RECORDS
MAX_RECORDS == 100

\* self.company_id, the company of the authenticated user
CompanyId == 1

\* the id of a company the user does not belong to
OtherCompanyId == 2

\* False in a many2one field
Unset == 0

\* None where an id is expected
NoId == -1

\* the domain operator "|"
Or == <<"|">>

\* arguments as a caller may pass them: Python values with their type
NoneArg == [type |-> "NoneType"]

IntArg(n) == [type |-> "int", value |-> n]

\* lead ids: not positive, of each lead of the table, of no lead, a string
LeadIdInputs ==
    {IntArg(n) : n \in 0..5} \cup {[type |-> "str", value |-> 1]}

\* stage ids: not positive, of each stage of the table, of no stage, a float
StageIdInputs ==
    {IntArg(n) : n \in {-1, 1, 2, 3}} \cup {[type |-> "float", value |-> 1]}

\* a datetime is <<day, second of the day>>; its string form orders as the
\* pair does
Before(a, b) == a[1] < b[1] \/ (a[1] = b[1] /\ a[2] <= b[2])

\* one term of a domain on one record
Leaf(rec, term) ==
    CASE term[2] = "="  -> rec[term[1]] = term[3]
      [] term[2] = "!=" -> rec[term[1]] # term[3]
      [] term[2] = ">=" -> Before(term[3], rec[term[1]])
      [] term[2] = "<=" -> Before(rec[term[1]], term[3])

\* Odoo's reading of a domain: terms are joined by "and", Or joins the two
\* terms after it
RECURSIVE DomainHolds(_, _)
DomainHolds(rec, domain) ==
    IF domain = <<>> THEN TRUE
    ELSE IF Len(Head(domain)) = 1
         THEN /\ Leaf(rec, domain[2]) \/ Leaf(rec, domain[3])
              /\ DomainHolds(rec, SubSeq(domain, 4, Len(domain)))
         ELSE /\ Leaf(rec, Head(domain))
              /\ DomainHolds(rec, Tail(domain))

\* the records of a table with their ids
Rows(db, model) ==
    [i \in DOMAIN db.tables[model] |-> [id |-> i] @@ db.tables[model][i]]

\* the server's search_read: the first limit records the domain selects
ServerSearchRead(db, model, domain, limit) ==
    LET found == SelectSeq(Rows(db, model), LAMBDA rec : DomainHolds(rec, domain))
    IN  SubSeq(found, 1, IF Len(found) < limit THEN Len(found) ELSE limit)

\* the server's write: the fields of values are set on the record
ServerWrite(db, model, record_id, values) ==
    [db EXCEPT !.tables[model][record_id] =
        [f \in DOMAIN @ |-> IF f \in DOMAIN values THEN values[f] ELSE @[f]]]

\* the server's create: the record is added to its table
ServerCreate(db, model, values) ==
    [db EXCEPT !.tables[model] = Append(@, values @@ [active |-> TRUE])]

_validate_limit(limit) == ~(limit <= 0 \/ limit > MAX_RECORDS)

_validate_domain(domain) == domain # <<>>

_validate_fields(fields) == fields # <<>>

MODELS_WITHOUT_COMPANY_ID == {"hr.attendance"}

_apply_company_scope(domain, model, company_id) ==
    IF model \in MODELS_WITHOUT_COMPANY_ID
    THEN domain
    ELSE domain \o <<Or, <<"company_id", "=", company_id>>,
                         <<"company_id", "=", Unset>>>>

\* OdooClient.search_read: the exception it raises, or the RPC it sends with
\* the records the server answers
search_read(db, model, domain, fields, limit, apply_company_scope) ==
    IF ~(_validate_limit(limit) /\ _validate_domain(domain) /\ _validate_fields(fields))
    THEN [error |-> "ValidationError"]
    ELSE LET scoped == IF apply_company_scope
                       THEN _apply_company_scope(domain, model, db.company_id)
                       ELSE domain
         IN  [rpc |-> [model |-> model, method |-> "search_read", domain |-> scoped],
              records |-> ServerSearchRead(db, model, scoped, limit)]

\* mutant: any values that set stage_id may be written
WriteAllowedWithStage(model, values) ==
    model = "crm.lead" /\ "stage_id" \in DOMAIN values

\* OdooClient.write, lines 217 to 223: the two tests that let a write pass
WriteAllowed(model, values) ==
    model = "crm.lead" /\ DOMAIN values = {"stage_id"}

\* the RPC OdooClient.write sends
WriteRpc(model, record_id, values) ==
    [model |-> model, method |-> "write", record_id |-> record_id, values |-> values]

--------------------------------------------------------------------------
(* the database the tools run against *)

\* crm.lead: an active lead of the company, an archived one, one of another
\* company, an active one of no company
Leads(stage) ==
    << [name |-> "Deal A", active |-> TRUE,  company_id |-> CompanyId,      stage_id |-> stage],
       [name |-> "Deal B", active |-> FALSE, company_id |-> CompanyId,      stage_id |-> 1],
       [name |-> "Deal C", active |-> TRUE,  company_id |-> OtherCompanyId, stage_id |-> 1],
       [name |-> "Deal D", active |-> TRUE,  company_id |-> Unset,          stage_id |-> Unset] >>

Stages == << [name |-> "New"], [name |-> "Won"] >>

Employees ==
    << [name |-> "Ada", active |-> TRUE,  company_id |-> CompanyId],
       [name |-> "Bob", active |-> TRUE,  company_id |-> OtherCompanyId],
       [name |-> "Cy",  active |-> FALSE, company_id |-> CompanyId] >>

Partners == << [name |-> "Acme", active |-> TRUE, company_id |-> CompanyId] >>

\* hr.attendance has no company_id field: the company is the employee's
AttendancePool ==
    { [employee_id |-> 1, check_in |-> <<1, 32400>>],
      [employee_id |-> 2, check_in |-> <<1, 32400>>],
      [employee_id |-> 1, check_in |-> <<2, 86399>>] }

\* the database as the client finds it
Database(stage, attendance) ==
    [company_id |-> CompanyId,
     tables |-> [m \in {"crm.lead", "crm.stage", "hr.employee",
                        "res.partner", "hr.attendance"} |->
                    CASE m = "crm.lead" -> Leads(stage)
                      [] m = "crm.stage" -> Stages
                      [] m = "hr.employee" -> Employees
                      [] m = "res.partner" -> Partners
                      [] m = "hr.attendance" -> attendance]]

InitOdoo ==
    /\ GovernanceUnused
    /\ ClientUnused
    /\ _client = NoClient
    /\ \E stage \in {Unset, 1, 2}, attendance \in SeqsUpTo(AttendancePool, MaxAttendance) :
          odoo = Database(stage, attendance)
    /\ rpcs = <<>>
    /\ result = Absent

--------------------------------------------------------------------------
(* tools/crm.py: update_lead_stage *)

\* lines 395 and 400: isinstance(x, int) and x > 0
IsPositiveInt(x) == x.type = "int" /\ x.value > 0

\* line 426
OldStage(lead_data) ==
    IF lead_data.stage_id # Unset THEN lead_data.stage_id ELSE NoId

\* mutant: the lead is looked up whether archived or not
LeadDomainAnyState(lead_id) == << <<"id", "=", lead_id>> >>

\* lines 411 to 414
LeadDomain(lead_id) == << <<"id", "=", lead_id>>, <<"active", "=", TRUE>> >>

\* the tool call ends: what it sent, what it returned or raised, and the
\* database after it
ToolEnds(sent, outcome, db) ==
    /\ rpcs' = sent
    /\ result' = outcome
    /\ odoo' = db
    /\ UNCHANGED <<governanceVars, clientVars, _client>>

update_lead_stage ==
    \E lead_id \in LeadIdInputs, stage_id \in StageIdInputs :
        LET call == [tool |-> "update_lead_stage", lead_id |-> lead_id, stage_id |-> stage_id]
        IN  IF ~IsPositiveInt(lead_id) \/ ~IsPositiveInt(stage_id)
            THEN ToolEnds(<<>>, call @@ [error |-> "ValueError"], odoo)
            ELSE
            LET lead == search_read(odoo, "crm.lead", LeadDomain(lead_id.value),
                                    <<"id", "name", "stage_id", "team_id">>, 1, TRUE)
            IN  IF lead.records = <<>>
                THEN ToolEnds(<<lead.rpc>>, call @@ [error |-> "ValueError"], odoo)
                ELSE
                LET lead_data == lead.records[1]
                    old_stage_id == OldStage(lead_data)
                    stage == search_read(odoo, "crm.stage", << <<"id", "=", stage_id.value>> >>,
                                         <<"id", "name">>, 1, FALSE)
                IN  IF stage.records = <<>>
                    THEN ToolEnds(<<lead.rpc, stage.rpc>>,
                                  call @@ [error |-> "ValueError"], odoo)
                    ELSE
                    LET values == [stage_id |-> stage_id.value]
                    IN  IF ~WriteAllowed("crm.lead", values)
                        THEN ToolEnds(<<lead.rpc, stage.rpc>>,
                                      call @@ [error |-> "RuntimeError"], odoo)
                        ELSE ToolEnds(<<lead.rpc, stage.rpc,
                                        WriteRpc("crm.lead", lead_id.value, values)>>,
                                      call @@ [old_stage_id |-> old_stage_id,
                                               new_stage_id |-> stage_id.value,
                                               lead_name |-> lead_data.name,
                                               new_stage_name |-> stage.records[1].name],
                                      ServerWrite(odoo, "crm.lead", lead_id.value, values))

\* values dictionaries a caller of OdooClient.write may pass
WriteValues ==
    { [stage_id |-> 2],
      [stage_id |-> 2, active |-> FALSE],
      [name |-> "Renamed"],
      [active |-> FALSE],
      <<>> }

\* OdooClient.write called with any model and any values
OdooClient_write ==
    \E model \in {"crm.lead", "res.partner"}, values \in WriteValues :
        LET call == [tool |-> "OdooClient.write", model |-> model, values |-> values]
        IN  IF ~WriteAllowed(model, values)
            THEN ToolEnds(<<>>, call @@ [error |-> "PermissionError"], odoo)
            ELSE ToolEnds(<<WriteRpc(model, 1, values)>>, call @@ [returned |-> TRUE],
                          ServerWrite(odoo, model, 1, values))

--------------------------------------------------------------------------
(* tools/hr.py: get_employee_attendance *)

\* a date_filter argument: none, a well-formed YYYY-MM-DD string of a day, a
\* string of another shape
DateInputs ==
    {NoneArg, [type |-> "str", wellformed |-> FALSE]}
    \cup {[type |-> "str", wellformed |-> TRUE, day |-> d] : d \in 1..2}

\* the truth value of an argument
IsTrue(x) ==
    CASE x.type = "NoneType" -> FALSE
      [] x.type = "int" -> x.value # 0
      [] OTHER -> TRUE

\* lines 906 to 916
AttendanceDomain(employee_id, date_filter, company_id) ==
    << <<"employee_id", "!=", Unset>> >>
    \o (IF IsTrue(employee_id) THEN << <<"employee_id", "=", employee_id.value>> >> ELSE <<>>)
    \o (IF IsTrue(date_filter)
        THEN << <<"check_in", ">=", <<date_filter.day, 0>> >>,
                <<"check_in", "<=", <<date_filter.day, 86399>> >> >>
        ELSE <<>>)

get_employee_attendance ==
    \E employee_id \in {NoneArg, IntArg(0), IntArg(1), IntArg(2)}, date_filter \in DateInputs,
       limit \in {0, 1, 101} :
        LET call == [tool |-> "get_employee_attendance", employee_id |-> employee_id,
                     date_filter |-> date_filter, limit |-> limit]
        IN  IF limit < 1 \/ limit > 100
            THEN ToolEnds(<<>>, call @@ [error |-> "ValueError"], odoo)
            ELSE IF IsTrue(date_filter) /\ ~date_filter.wellformed
            THEN ToolEnds(<<>>, call @@ [error |-> "ValueError"], odoo)
            ELSE
            LET read == search_read(odoo, "hr.attendance",
                                    AttendanceDomain(employee_id, date_filter, odoo.company_id),
                                    <<"employee_id", "check_in", "check_out", "worked_hours">>,
                                    limit, FALSE)
            IN  IF "error" \in DOMAIN read
                THEN ToolEnds(<<>>, call @@ [error |-> "RuntimeError"], odoo)
                ELSE ToolEnds(<<read.rpc>>, call @@ [records |-> read.records], odoo)

--------------------------------------------------------------------------
(* tools/crm.py: get_lead, a read tool that leaves the scope to OdooClient *)

get_lead ==
    \E lead_id \in {NoneArg, IntArg(0), IntArg(1), IntArg(3)}, stage_id \in {NoneArg, IntArg(1)},
       limit \in {0, 10} :
        LET call == [tool |-> "get_lead", lead_id |-> lead_id, stage_id |-> stage_id,
                     limit |-> limit]
        IN  IF ~(IsTrue(lead_id) \/ IsTrue(stage_id))
            THEN ToolEnds(<<>>, call @@ [error |-> "ValueError"], odoo)
            ELSE IF limit < 1 \/ limit > 100
            THEN ToolEnds(<<>>, call @@ [error |-> "ValueError"], odoo)
            ELSE
            LET domain == << <<"active", "=", TRUE>> >>
                          \o (IF lead_id # NoneArg
                              THEN << <<"id", "=", lead_id.value>> >> ELSE <<>>)
                          \o (IF stage_id # NoneArg
                              THEN << <<"stage_id", "=", stage_id.value>> >> ELSE <<>>)
                read == search_read(odoo, "crm.lead", domain,
                                    <<"id", "name", "partner_id", "stage_id">>, limit, TRUE)
            IN  IF "error" \in DOMAIN read
                THEN ToolEnds(<<>>, call @@ [error |-> "RuntimeError"], odoo)
                ELSE ToolEnds(<<read.rpc>>, call @@ [records |-> read.records], odoo)

NextOdoo ==
    \/ update_lead_stage
    \/ OdooClient_write
    \/ get_employee_attendance
    \/ get_lead

SpecOdoo == InitOdoo /\ [][NextOdoo]_vars

--------------------------------------------------------------------------
(* tools/hr.py: check_employee_availability.  A date is <<year, month,      *)
(* day>>; its YYYY-MM-DD string orders as the triple does.  The hr.leave   *)
(* records the server answers with are drawn from LeavePool.               *)

Leap(y) == (y % 4 = 0 /\ y % 100 # 0) \/ y % 400 = 0

DaysInMonth(y, m) ==
    CASE m \in {1, 3, 5, 7, 8, 10, 12} -> 31
      [] m \in {4, 6, 9, 11} -> 30
      [] OTHER -> IF Leap(y) THEN 29 ELSE 28

\* date.fromisoformat accepts the string
IsDate(d) == d[2] \in 1..12 /\ d[3] \in 1..DaysInMonth(d[1], d[2])

RECURSIVE DaysBeforeMonth(_, _)
DaysBeforeMonth(y, m) ==
    IF m = 1 THEN 0 ELSE DaysBeforeMonth(y, m - 1) + DaysInMonth(y, m - 1)

\* date.toordinal
Ordinal(d) ==
    LET y == d[1] - 1
    IN  365 * y + (y \div 4) - (y \div 100) + (y \div 400) + DaysBeforeMonth(d[1], d[2]) + d[3]

\* d + timedelta(days=1)
NextDay(d) ==
    IF d[3] < DaysInMonth(d[1], d[2]) THEN <<d[1], d[2], d[3] + 1>>
    ELSE IF d[2] < 12 THEN <<d[1], d[2] + 1, 1>>
    ELSE <<d[1] + 1, 1, 1>>

\* a < b, of dates and of their strings
DateLess(a, b) ==
    \/ a[1] < b[1]
    \/ a[1] = b[1] /\ a[2] < b[2]
    \/ a[1] = b[1] /\ a[2] = b[2] /\ a[3] < b[3]

DateMax(a, b) == IF DateLess(a, b) THEN b ELSE a

DateMin(a, b) == IF DateLess(b, a) THEN b ELSE a

\* lines 746 and 747: the date before the blank of a datetime string
DatePart(x) == x.date

\* lines 749 to 756
LeaveStart(leave, date_from) == DateMax(DatePart(leave.date_from), date_from)

LeaveEnd(leave, date_to) == DateMin(DatePart(leave.date_to), date_to)

\* lines 759 to 764: the days the loop adds, from current up to leave_end
RECURSIVE DaysUpTo(_, _)
DaysUpTo(current, leave_end) ==
    IF DateLess(leave_end, current) THEN {}
    ELSE {current} \cup DaysUpTo(NextDay(current), leave_end)

AffectedDates(leave, date_from, date_to) ==
    DaysUpTo(LeaveStart(leave, date_from), LeaveEnd(leave, date_to))

RECURSIVE SumDaysInRange(_, _, _)
SumDaysInRange(leaves, date_from, date_to) ==
    IF leaves = <<>> THEN 0
    ELSE Cardinality(AffectedDates(Head(leaves), date_from, date_to))
         + SumDaysInRange(Tail(leaves), date_from, date_to)

\* mutant: the days of the leaves are added up, leave by leave
UnavailableDaysPerLeave(leaves, date_from, date_to) ==
    SumDaysInRange(leaves, date_from, date_to)

\* lines 741 to 780: the size of the set of unavailable dates
UnavailableDays(leaves, date_from, date_to) ==
    Cardinality(UNION {AffectedDates(leaves[i], date_from, date_to) : i \in DOMAIN leaves})

\* lines 735 to 808
Availability(leaves, date_from, date_to) ==
    LET total_days == Ordinal(date_to) - Ordinal(date_from) + 1
        unavailable_days == UnavailableDays(leaves, date_from, date_to)
    IN  [total_days |-> total_days,
         available_days |-> total_days - unavailable_days,
         unavailable_days |-> unavailable_days,
         is_available |-> unavailable_days = 0,
         conflicting_leaves |->
             [i \in DOMAIN leaves |->
                 [leave_id |-> leaves[i].id,
                  days_in_range |->
                      Cardinality(AffectedDates(leaves[i], date_from, date_to))]]]

\* date arguments: strings of dates around the turn of a year and the end of
\* a February, a date object, a string that names no date, a string of
\* another shape, a value of another type
DateArgs ==
    {[type |-> "str", wellformed |-> TRUE, date |-> d] :
        d \in {<<2023, 12, 31>>, <<2024, 1, 1>>, <<2024, 2, 28>>, <<2024, 2, 29>>,
               <<2024, 3, 1>>, <<2024, 2, 30>>}}
    \cup {[type |-> "date", date |-> <<2024, 2, 29>>],
          [type |-> "str", wellformed |-> FALSE],
          [type |-> "int"]}

\* lines 640 to 661: the argument is a date or a string of the shape
\* YYYY-MM-DD
Normalizes(x) == x.type = "date" \/ (x.type = "str" /\ x.wellformed)

Stamp(d, time) == [date |-> d, time |-> time]

\* approved leaves: one reaching into the range from before, one overlapping
\* it, one reaching beyond the range, one of a single day given as a date
LeavePool ==
    { [id |-> 11, date_from |-> Stamp(<<2023, 12, 30>>, "08:00:00"),
                  date_to   |-> Stamp(<<2024, 1, 1>>, "17:00:00")],
      [id |-> 12, date_from |-> Stamp(<<2024, 1, 1>>, "08:00:00"),
                  date_to   |-> Stamp(<<2024, 2, 28>>, "17:00:00")],
      [id |-> 13, date_from |-> Stamp(<<2024, 2, 29>>, "08:00:00"),
                  date_to   |-> Stamp(<<2024, 3, 5>>, "17:00:00")],
      [id |-> 14, date_from |-> Stamp(<<2024, 2, 28>>, None),
                  date_to   |-> Stamp(<<2024, 2, 28>>, None)] }

InitAvailability ==
    /\ GovernanceUnused
    /\ ClientUnused
    /\ _client = NoClient
    /\ odoo = Database(1, <<>>)
    /\ rpcs = <<>>
    /\ result = Absent

check_employee_availability ==
    /\ result = Absent
    /\ \E employee_id \in 1..4, date_from \in DateArgs, date_to \in DateArgs,
          leaves \in SeqsUpTo(LeavePool, MaxLeaves) :
          LET call == [tool |-> "check_employee_availability", employee_id |-> employee_id,
                       date_from |-> date_from, date_to |-> date_to]
              raised == call @@ [error |-> "ValueError"]
          IN  IF ~Normalizes(date_from) \/ ~Normalizes(date_to)
              THEN ToolEnds(<<>>, raised, odoo)
              ELSE IF DateLess(date_to.date, date_from.date)
              THEN ToolEnds(<<>>, raised, odoo)
              ELSE
              LET employees ==
                      search_read(odoo, "hr.employee",
                                  << <<"id", "=", employee_id>>, <<"active", "=", TRUE>>,
                                     <<"company_id", "=", odoo.company_id>> >>,
                                  <<"id", "name">>, 1, TRUE)
                  leave_rpc ==
                      [model |-> "hr.leave", method |-> "search_read",
                       domain |-> _apply_company_scope(
                           << <<"employee_id", "=", employee_id>>,
                              <<"state", "=", "validate">>,
                              <<"company_id", "=", odoo.company_id>>,
                              <<"date_to", ">=", date_from.date>>,
                              <<"date_from", "<=", date_to.date>> >>,
                           "hr.leave", odoo.company_id)]
              IN  IF employees.records = <<>>
                  THEN ToolEnds(<<employees.rpc>>, raised, odoo)
                  ELSE IF ~IsDate(date_from.date) \/ ~IsDate(date_to.date)
                  THEN ToolEnds(<<employees.rpc, leave_rpc>>, raised, odoo)
                  ELSE ToolEnds(<<employees.rpc, leave_rpc>>,
                                call @@ [answered |-> leaves]
                                     @@ Availability(leaves, date_from.date, date_to.date),
                                odoo)

\* the caller takes what the tool returned or raised
ToolReturns ==
    /\ result # Absent
    /\ result' = Absent
    /\ UNCHANGED <<governanceVars, clientVars, _client, odoo, rpcs>>

NextAvailability ==
    \/ check_employee_availability
    \/ ToolReturns

SpecAvailability == InitAvailability /\ [][NextAvailability]_vars

--------------------------------------------------------------------------
(* tools/crm.py: create_partner, called by up to MaxCallers callers at     *)
(* once.  A name is the sequence of its characters.  A call is two steps,  *)
(* one for each request it sends: the uniqueness search and the create.    *)
(* Of the optional arguments only email is kept; the others are copied     *)
(* into the values as email is.                                            *)

RECURSIVE LStrip(_)
LStrip(s) == IF s # <<>> /\ Head(s) = " " THEN LStrip(Tail(s)) ELSE s

RECURSIVE RStrip(_)
RStrip(s) ==
    IF s # <<>> /\ s[Len(s)] = " " THEN RStrip(SubSeq(s, 1, Len(s) - 1)) ELSE s

\* str.strip
Strip(s) == LStrip(RStrip(s))

NameInputs == {<<"A">>, <<" ", "A", " ">>, <<"B">>, <<>>, <<" ">>}

\* email arguments: none, one the pattern of line 140 matches, one it does not
EmailInputs ==
    {NoneArg, [type |-> "str", value |-> "a@b.c", matches |-> TRUE],
              [type |-> "str", value |-> "a.b.c", matches |-> FALSE]}

\* partners the database may hold at the start: in the company, archived,
\* of another company, of no company
PartnerPool ==
    { [name |-> <<"A">>, active |-> TRUE,  company_id |-> CompanyId],
      [name |-> <<"A">>, active |-> FALSE, company_id |-> CompanyId],
      [name |-> <<"A">>, active |-> TRUE,  company_id |-> OtherCompanyId],
      [name |-> <<"A">>, active |-> TRUE,  company_id |-> Unset] }

PartnerCaller == [pc |-> "idle", values |-> Absent, last |-> "none"]

InitPartners ==
    /\ GovernanceUnused
    /\ _client = NoClient
    /\ connections = <<>>
    /\ threads = [t \in 1..MaxCallers |-> PartnerCaller]
    /\ \E partners \in SeqsUpTo(PartnerPool, MaxPartners) :
          odoo = [Database(1, <<>>) EXCEPT !.tables["res.partner"] = partners]
    /\ rpcs = <<>>
    /\ result = Absent

\* the calls that have searched and not yet created
Creating == {t \in DOMAIN threads : threads[t].pc = "create"}

\* lines 133 to 190: validation, the uniqueness search, the values
CreatePartnerCheck(t) ==
    /\ t \in DOMAIN threads
    /\ threads[t].pc = "idle"
    /\ Len(odoo.tables["res.partner"]) + Cardinality(Creating) < MaxPartnerRecords
    /\ \E name \in NameInputs, email \in EmailInputs :
          LET raised == [threads EXCEPT ![t].last = "ValueError"]
              stripped == Strip(name)
              existing == search_read(odoo, "res.partner",
                                      << <<"name", "=", stripped>>, <<"active", "=", TRUE>> >>,
                                      <<"id">>, 1, TRUE)
              values == IF email = NoneArg THEN [name |-> stripped]
                        ELSE [name |-> stripped, email |-> email.value]
          IN  IF name = <<>> \/ Strip(name) = <<>>
              THEN threads' = raised /\ rpcs' = <<>>
              ELSE IF email # NoneArg /\ ~email.matches
              THEN threads' = raised /\ rpcs' = <<>>
              ELSE IF existing.records # <<>>
              THEN threads' = raised /\ rpcs' = <<existing.rpc>>
              ELSE /\ threads' = [threads EXCEPT ![t].pc = "create", ![t].values = values,
                                                 ![t].last = "none"]
                   /\ rpcs' = <<existing.rpc>>
    /\ UNCHANGED <<governanceVars, _client, connections, odoo, result>>

\* lines 205 to 222 and OdooClient.create: the company is set and the record
\* is created
CreatePartnerCreate(t) ==
    /\ t \in DOMAIN threads
    /\ threads[t].pc = "create"
    /\ LET values == threads[t].values @@ [company_id |-> odoo.company_id]
       IN  /\ odoo' = ServerCreate(odoo, "res.partner", values)
           /\ rpcs' = << [model |-> "res.partner", method |-> "create", values |-> values] >>
           /\ threads' = [threads EXCEPT
                  ![t] = [pc |-> "idle", values |-> Absent,
                          last |-> [partner_id |-> Len(odoo.tables["res.partner"]) + 1]]]
    /\ UNCHANGED <<governanceVars, _client, connections, result>>

\* lines 224 to 235: the create request fails
CreatePartnerFails(t) ==
    /\ t \in DOMAIN threads
    /\ threads[t].pc = "create"
    /\ rpcs' = << [model |-> "res.partner", method |-> "create",
                   values |-> threads[t].values @@ [company_id |-> odoo.company_id]] >>
    /\ threads' = [threads EXCEPT
           ![t] = [pc |-> "idle", values |-> Absent, last |-> "RuntimeError"]]
    /\ UNCHANGED <<governanceVars, _client, connections, odoo, result>>

NextPartners ==
    \E t \in 1..MaxCallers :
        \/ CreatePartnerCheck(t)
        \/ CreatePartnerCreate(t)
        \/ CreatePartnerFails(t)

SpecPartners == InitPartners /\ [][NextPartners]_vars

--------------------------------------------------------------------------
(* The legality stub, the order of the collaborators, the severity strings *)

\* the state pair of the request is malformed: one of its states is None
MalformedPair(s) == s.current_state = None \/ s.next_state = None

\* C22: check_process_legality raises for no input, and for a malformed state
\* pair it returns valid = false with a non-empty reason.
C22_LegalityRejectsMalformed ==
    pc = "legality" =>
        LET r == check_process_legality(state.current_state, state.next_state, state.role)
        IN  /\ DOMAIN r = {"valid", "approval_required", "reason"}
            /\ MalformedPair(state) => (~r.valid /\ r.reason # "")

\* C28: the collaborators are invoked in the order legality, policy,
\* approval, each at most once and each after the one before it returned; the
\* approval lookup is invoked exactly in the evaluations whose verdict is
\* NEEDS_APPROVAL, so never with a policy severity of BLOCK and never in an
\* ALLOWED evaluation.
C28_CollaboratorOrder ==
    /\ calls.legality \in {0, 1}
    /\ calls.policy \in {0, 1}
    /\ calls.approval \in {0, 1}
    /\ calls.policy = 1 => (calls.legality = 1 /\ process # Absent /\ process.valid)
    /\ calls.approval = 1 => (calls.policy = 1 /\ policy # Absent)
    /\ pc = "returned" => (calls.approval = 1 <=> decision.verdict = "NEEDS_APPROVAL")
    /\ (policy # Absent /\ policy.severity = "BLOCK") => calls.approval = 0
    /\ (pc = "raised" /\ calls.approval = 1) =>
           PolicyOutcome(process, policy) = "approval"

\* a policy block ended the evaluation of a request whose legality answer
\* asks for approval and for which an approval record is stored
C28_Witness ==
    /\ pc = "returned"
    /\ policy # Absent
    /\ policy.severity = "BLOCK"
    /\ process.approval_required
    /\ Len(MatchedApprovals) > 0
    /\ calls = [legality |-> 1, policy |-> 1, approval |-> 0]
    /\ approval = Absent

Severities == {"ALLOW", "REQUIRE_APPROVAL", "BLOCK"}

\* the matched records, those of a severity outside the enumeration rewritten
\* to ALLOW
MatchedAsAllow ==
    [i \in DOMAIN MatchedRecords |->
        IF MatchedRecords[i].severity \in Severities
        THEN MatchedRecords[i]
        ELSE [MatchedRecords[i] EXCEPT !.severity = "ALLOW"]]

\* C30: the severity check_policy_constraints returns is one of ALLOW,
\* REQUIRE_APPROVAL, BLOCK whatever severity strings the matched records
\* carry; a record of another severity counts as ALLOW in the reduction and
\* its policy_text is in policies all the same.
C30_SeverityClosed ==
    policy # Absent =>
        /\ policy.severity \in Severities
        /\ policy = PolicyReduce(MatchedAsAllow)
        /\ \A i \in DOMAIN MatchedRecords :
              MatchedRecords[i].severity \notin Severities =>
                  /\ i \in DOMAIN policy.policies
                  /\ policy.policies[i] = MatchedRecords[i].policy_text

\* the only matched record spells its severity in lower case: the result is
\* ALLOW with that record's text
C30_Witness ==
    /\ policy # Absent
    /\ Len(MatchedRecords) = 1
    /\ MatchedRecords[1].severity = "block"
    /\ policy = [severity |-> "ALLOW", policies |-> <<"Hiring freeze">>]
    /\ pc = "returned"
    /\ decision.verdict = "ALLOWED"

--------------------------------------------------------------------------
(* The lifecycle of the store connection *)

\* the connections that were made and not closed
OpenConnections == {n \in DOMAIN connections : connections[n].closed = 0}

\* what holds of the connection between the calls of one caller
LifecycleSequential ==
    /\ Cardinality(OpenConnections) \in {0, 1}
    /\ \A n \in DOMAIN connections : connections[n].closed \in {0, 1}
    /\ \A t \in DOMAIN threads :
          /\ threads[t].last \notin {"query raised", "close_client raised"}
          /\ threads[t].pc = "idle" =>
                /\ _client = NoClient => OpenConnections = {}
                /\ _client # NoClient => OpenConnections = {_client.id}
                /\ threads[t].last \in {"get_client", "query"} =>
                      /\ threads[t].handed = _client
                      /\ _client # NoClient
                /\ threads[t].last = "close_client" =>
                      /\ _client = NoClient
                      /\ \A n \in DOMAIN connections : connections[n].closed = 1

\* what one step of a caller does to the connection
LifecycleStep ==
    \A t \in DOMAIN threads :
        /\ Len(connections') > Len(connections) =>
              /\ _client = NoClient
              /\ Len(connections') = Len(connections) + 1
              /\ threads[t].pc = "get_connect"
              /\ threads[t].tested = NoClient
        /\ (threads[t].pc = "idle" /\ threads'[t].pc = "get_return") =>
              /\ _client # NoClient
              /\ _client' = _client
              /\ connections' = connections
        /\ (threads[t].pc = "get_return" /\ threads'[t].pc = "idle") =>
              /\ threads'[t].handed = _client
              /\ threads[t].tested # NoClient => threads'[t].handed = threads[t].tested
              /\ threads[t].tested = NoClient => threads'[t].handed = threads[t].made
              /\ connections' = connections
        /\ (threads[t].pc = "idle" /\ threads'[t].pc = "idle"
               /\ threads'[t].last = "close_client" /\ threads'[t].tested = NoClient) =>
              /\ _client' = _client
              /\ connections' = connections
        /\ (threads[t].pc = "close_close" /\ threads'[t].pc = "close_clear") =>
              /\ connections[_client.id].closed = 0
              /\ connections'[_client.id].closed = 1
        /\ (threads[t].pc = "close_clear" /\ threads'[t].pc = "idle") =>
              _client' = NoClient
        /\ threads[t].pc = "get_store" =>
              /\ _client' = Connection(Len(connections))
              /\ connections[Len(connections)].closed = 0

\* C21: under calls of get_client and close_client made one after the other,
\* a connection is made only by a get_client called while none is held;
\* later get_client calls return that connection and make none; close_client
\* closes the held connection once and clears _client; close_client with none
\* held changes nothing; a get_client after it makes a new connection.  At
\* most one connection is open at any time.
C21_ClientLifecycle ==
    /\ []LifecycleSequential
    /\ [][LifecycleStep]_vars

\* get, close, get again, query: the second connection is held and open, the
\* first is closed
C21_Witness ==
    /\ DOMAIN threads = {1}
    /\ threads[1].pc = "idle"
    /\ threads[1].last = "query"
    /\ Len(connections) = 2
    /\ connections[1].closed = 1
    /\ connections[2].closed = 0
    /\ _client = Connection(2)
    /\ threads[1].handed = Connection(2)

\* an open connection can be reached: _client holds it, or the get_client
\* call that made it is about to store it
Reachable(n) ==
    \/ _client = Connection(n)
    \/ \E t \in DOMAIN threads :
          threads[t].pc = "get_store" /\ threads[t].made = Connection(n)

\* C29: for any interleaving of get_client and close_client calls of callers
\* running at the same time, at most one connection is open, every open
\* connection is reachable through _client, and get_client returns no
\* connection that another caller's close_client has closed.
C29_SharedClientSafe ==
    /\ [](/\ Cardinality(OpenConnections) <= 1
          /\ \A n \in OpenConnections : Reachable(n))
    /\ [][\A t \in DOMAIN threads :
              (threads[t].pc = "get_return" /\ threads'[t].pc = "idle") =>
                  /\ threads'[t].handed # NoClient
                  /\ connections[threads'[t].handed.id].closed = 0]_vars

--------------------------------------------------------------------------
(* The write guard and update_lead_stage *)

IsWrite(rpc) == rpc.method = "write"

\* C23: OdooClient.write sends its RPC only for model crm.lead with values
\* of the one key stage_id; for any other model or key set it raises
\* PermissionError and sends nothing.  Over any sequence of tool calls no
\* field of an existing record changes but stage_id of a crm.lead.
C23_WriteGuard ==
    /\ [](/\ \A i \in DOMAIN rpcs :
                IsWrite(rpcs[i]) => /\ rpcs[i].model = "crm.lead"
                                    /\ DOMAIN rpcs[i].values = {"stage_id"}
          /\ (result # Absent /\ result.tool = "OdooClient.write") =>
                IF result.model = "crm.lead" /\ DOMAIN result.values = {"stage_id"}
                THEN /\ "error" \notin DOMAIN result
                     /\ Len(rpcs) = 1
                     /\ IsWrite(rpcs[1])
                ELSE /\ "error" \in DOMAIN result
                     /\ result.error = "PermissionError"
                     /\ rpcs = <<>>)
    /\ [][\A m \in DOMAIN odoo.tables : \A i \in DOMAIN odoo.tables[m] :
              /\ i \in DOMAIN odoo'.tables[m]
              /\ DOMAIN odoo'.tables[m][i] = DOMAIN odoo.tables[m][i]
              /\ \A f \in DOMAIN odoo.tables[m][i] :
                    (m # "crm.lead" \/ f # "stage_id") =>
                        odoo'.tables[m][i][f] = odoo.tables[m][i][f]]_vars

\* a write of stage_id together with active was refused and nothing was sent
C23_Witness ==
    /\ result # Absent
    /\ result.tool = "OdooClient.write"
    /\ result.model = "crm.lead"
    /\ DOMAIN result.values = {"stage_id", "active"}
    /\ result.error = "PermissionError"
    /\ rpcs = <<>>
    /\ odoo.tables["crm.lead"][1].active

\* the request of the last update_lead_stage call, judged on the tables
ValidIds(r) ==
    /\ r.lead_id.type = "int"
    /\ r.lead_id.value > 0
    /\ r.stage_id.type = "int"
    /\ r.stage_id.value > 0

LeadFound(db, id) ==
    /\ id \in DOMAIN db.tables["crm.lead"]
    /\ db.tables["crm.lead"][id].active
    /\ db.tables["crm.lead"][id].company_id \in {db.company_id, Unset}

StageFound(db, id) == id \in DOMAIN db.tables["crm.stage"]

IsSearch(rpc, model) == rpc.method = "search_read" /\ rpc.model = model

\* the RPCs of an update_lead_stage call and its outcome fit the checks
StageUpdateChecked(r) ==
    /\ \A i \in DOMAIN rpcs :
          IsWrite(rpcs[i]) =>
              /\ i = 3
              /\ Len(rpcs) = 3
              /\ IsSearch(rpcs[1], "crm.lead")
              /\ IsSearch(rpcs[2], "crm.stage")
              /\ ValidIds(r)
              /\ LeadFound(odoo, r.lead_id.value)
              /\ StageFound(odoo, r.stage_id.value)
              /\ rpcs[i].record_id = r.lead_id.value
              /\ rpcs[i].values = [stage_id |-> r.stage_id.value]
    /\ IF ~ValidIds(r)
       THEN /\ "error" \in DOMAIN r
            /\ r.error = "ValueError"
            /\ rpcs = <<>>
       ELSE IF ~LeadFound(odoo, r.lead_id.value)
       THEN /\ "error" \in DOMAIN r
            /\ r.error = "ValueError"
            /\ Len(rpcs) = 1
            /\ IsSearch(rpcs[1], "crm.lead")
       ELSE IF ~StageFound(odoo, r.stage_id.value)
       THEN /\ "error" \in DOMAIN r
            /\ r.error = "ValueError"
            /\ Len(rpcs) = 2
            /\ IsSearch(rpcs[2], "crm.stage")
       ELSE /\ "error" \notin DOMAIN r
            /\ Len(rpcs) = 3
            /\ IsWrite(rpcs[3])
            /\ r.new_stage_id = r.stage_id.value
            /\ odoo.tables["crm.lead"][r.lead_id.value].stage_id = r.new_stage_id

\* what an update_lead_stage call does to the tables
StageUpdateStep ==
    (result' # Absent /\ result'.tool = "update_lead_stage") =>
        IF "error" \in DOMAIN result'
        THEN odoo' = odoo
        ELSE LET id == result'.lead_id.value
                 before == odoo.tables["crm.lead"][id].stage_id
             IN  /\ result'.old_stage_id = IF before = Unset THEN NoId ELSE before
                 /\ odoo' = [odoo EXCEPT !.tables["crm.lead"][id].stage_id =
                                              result'.new_stage_id]

\* C24: update_lead_stage sends the stage write only after it validated both
\* ids as positive integers, then found an active lead of that id in the
\* company scope, then found a stage of that id; when a check fails it raises
\* ValueError and no write is sent.  On success new_stage_id is the stage
\* asked for and old_stage_id the lead's stage before the write; the stage
\* the lead is in may be asked for.
C24_StageUpdateChecked ==
    /\ []((result # Absent /\ result.tool = "update_lead_stage") =>
              StageUpdateChecked(result))
    /\ [][StageUpdateStep]_vars

\* a lead was moved to the stage it was in
C24_Witness ==
    /\ result # Absent
    /\ result.tool = "update_lead_stage"
    /\ "error" \notin DOMAIN result
    /\ result.lead_id = IntArg(1)
    /\ result.old_stage_id = 2
    /\ result.new_stage_id = 2
    /\ Len(rpcs) = 3

\* C27: the attendance records get_employee_attendance returns are those of
\* employees of the current company, and the query it sends carries a
\* company term.
C27_AttendanceScoped ==
    (result # Absent /\ result.tool = "get_employee_attendance"
       /\ "records" \in DOMAIN result) =>
        /\ \A i \in DOMAIN result.records :
              odoo.tables["hr.employee"][result.records[i].employee_id].company_id
                  = odoo.company_id
        /\ \A i \in DOMAIN rpcs :
              \E k \in DOMAIN rpcs[i].domain :
                  /\ Len(rpcs[i].domain[k]) = 3
                  /\ rpcs[i].domain[k][1] = "company_id"


--------------------------------------------------------------------------
(* The figures of check_employee_availability.                             *)

\* the dates of the years the arguments and the leaves lie in
Calendar == {d \in (2023..2024) \X (1..12) \X (1..31) : IsDate(d)}

Between(d, a, b) == ~DateLess(d, a) /\ ~DateLess(b, d)

IsAvailability ==
    /\ result # Absent
    /\ result.tool = "check_employee_availability"
    /\ Normalizes(result.date_from) /\ Normalizes(result.date_to)
    /\ IsDate(result.date_from.date) /\ IsDate(result.date_to.date)

\* an active employee of the client's company has the id
EmployeeFound(employee_id) ==
    /\ employee_id \in DOMAIN odoo.tables["hr.employee"]
    /\ odoo.tables["hr.employee"][employee_id].active
    /\ odoo.tables["hr.employee"][employee_id].company_id = odoo.company_id

\* an active employee has the id
EmployeeActive(employee_id) ==
    /\ employee_id \in DOMAIN odoo.tables["hr.employee"]
    /\ odoo.tables["hr.employee"][employee_id].active

\* the days of the range that some answered leave covers
OnLeave(r, days) ==
    {d \in days : \E i \in DOMAIN r.answered :
        Between(d, r.answered[i].date_from.date, r.answered[i].date_to.date)}

\* C26: for date_from <= date_to and any approved leaves answered for the
\* employee, overlapping or reaching beyond the range,
\* check_employee_availability returns total_days as the inclusive number of
\* days of the range, 0 <= unavailable_days <= total_days, available_days +
\* unavailable_days = total_days, every day on leave counted once, and
\* is_available exactly when unavailable_days = 0; for date_from > date_to or
\* an id of no active employee it raises ValueError.
C26_AvailabilityFigures ==
    IsAvailability =>
        LET date_from == result.date_from.date
            date_to == result.date_to.date
            days == {d \in Calendar : Between(d, date_from, date_to)}
        IN  /\ DateLess(date_to, date_from) \/ ~EmployeeActive(result.employee_id)
                => "error" \in DOMAIN result /\ result.error = "ValueError"
            /\ ~DateLess(date_to, date_from) /\ EmployeeFound(result.employee_id)
                => /\ "error" \notin DOMAIN result
                   /\ result.total_days = Cardinality(days)
                   /\ 0 <= result.unavailable_days
                   /\ result.unavailable_days <= result.total_days
                   /\ result.available_days + result.unavailable_days = result.total_days
                   /\ result.unavailable_days = Cardinality(OnLeave(result, days))
                   /\ result.is_available <=> result.unavailable_days = 0

\* two leaves that overlap on the first of January, one of them starting
\* before the range, in a range over the turn of the year and a leap day
C26_Witness ==
    /\ IsAvailability
    /\ "error" \notin DOMAIN result
    /\ result.date_from.date = <<2023, 12, 31>>
    /\ result.date_to.date = <<2024, 2, 29>>
    /\ {result.answered[i].id : i \in DOMAIN result.answered} = {11, 12}
    /\ result.total_days = 61
    /\ result.unavailable_days = 60
    /\ result.available_days = 1
    /\ ~result.is_available


--------------------------------------------------------------------------
(* The duplicate protection of create_partner.                             *)

\* the uniqueness search selects the partner: active, of the client's
\* company or of none
InScope(partner) ==
    partner.active /\ partner.company_id \in {odoo.company_id, Unset}

PartnerCreated ==
    Len(odoo'.tables["res.partner"]) > Len(odoo.tables["res.partner"])

\* C25: create_partner never creates a partner whose stripped name is the
\* name of an active partner already in the company scope, whatever the
\* interleaving of the calls; such a call raises ValueError and sends no
\* create.
C25_DuplicateProtection ==
    [][PartnerCreated =>
          LET old == odoo.tables["res.partner"]
              new == odoo'.tables["res.partner"]
          IN  \A i \in DOMAIN old : InScope(old[i]) => old[i].name # new[Len(new)].name]_vars

====
